---------------------------- MODULE Spec2Model ----------------------------
(***************************************************************************)
(* Model of the QGIS plugin AdvancedMeasureTool (AdvancedMeasureTool.py):  *)
(* the plugin object with its toggle action, and the inner map tool        *)
(* _MeasureMapTool that turns canvas events into an in-memory segment      *)
(* table and, on double-click, into a memory layer.                        *)
(*                                                                         *)
(* Numbers.  Map coordinates are integers in units of 1e-7 map units, so   *)
(* that round(v, 6) is a rounding to a multiple of 10.  Unrounded lengths  *)
(* are integers in hundredths of a metre; a stored length_m/cum_length_m   *)
(* (1 decimal) is an integer number of tenths of a metre, a stored         *)
(* length_nm/cum_length_nm (2 decimals) an integer number of hundredths of *)
(* a nautical mile.  Python's None is the value None below.                *)
(***************************************************************************)
EXTENDS Integers, Sequences, FiniteSets

\* ------------------------------------------------------------------ bounds
\* Clicks accepted into one session before the model stops clicking.
MaxClicks == 3
\* The same, in the specification that also unloads the plugin.
MaxUnloadClicks == 1

\* ------------------------------------------------------- values and inputs
\* Python None in a numeric field (coordinates and lengths are >= 0 here).
None == -1
\* Python None for self.last_point.
NoPoint == <<>>
\* A handler that pushed no message, and one that added no layer.
NoMessage == <<>>
NoLayer == [crs |-> "", features |-> << >>]

\* Map points toMapCoordinates can return, in 1e-7 map units.  The first
\* two differ only below the sixth decimal.
Points == { <<0, 0>>, <<4, 3>>, <<20004, 10006>> }

\* Destination reference systems of the canvas: a geographic one and a
\* projected one.
CrsSet == { "EPSG:4326", "EPSG:3857" }
\* QgsProject.instance().ellipsoid(): "" when the project defines none.  The
\* ellipsoid is a property of the project the plugin is loaded into: a
\* behaviour starts with either value and keeps it, while the canvas's
\* reference system changes during a session.
EllipsoidSet == { "", "NONE" }

\* How the removal of the toolbar in unload() goes: removeToolBar of the
\* main window succeeds; it raises and removeToolBar of the interface
\* succeeds; both raise.
RemovalOutcomes == { "removed", "fallback", "failed" }

Buttons == { "LeftButton", "RightButton" }
Keys == { "Key_Escape", "Key_Other" }

\* ----------------------------------------------------------- pure helpers
Abs(v) == IF v < 0 THEN -v ELSE v

\* a / b rounded to the nearest integer, ties to the even one: what Python's
\* round() and format() do with a value that lies exactly halfway.
RoundDiv(a, b) ==
    LET q == a \div b
        r == a % b
    IN  IF 2 * r < b THEN q
        ELSE IF 2 * r > b THEN q + 1
        ELSE IF q % 2 = 0 THEN q ELSE q + 1

\* round(v, 6) of a coordinate: the result stays in 1e-7 units.
Round6(v) == 10 * RoundDiv(v, 10)

\* round(length, 1) of a length in hundredths of a metre, in tenths.
Round1(cm) == RoundDiv(cm, 10)

\* round(length_m / 1852.0, 2) of a length in hundredths of a metre, in
\* hundredths of a nautical mile.
RoundNm(cm) == RoundDiv(cm, 1852)

\* QgsProject.instance().ellipsoid() or 'WGS84'
EllipsoidOrWGS84(e) == IF e = "" THEN "WGS84" ELSE e

\* crs.isGeographic()
isGeographic(crs) == crs = "EPSG:4326"

\* QgsDistanceArea: a calculator is the pair it was configured with.
DistanceArea(crs, e) == [crs |-> crs, ellipsoid |-> EllipsoidOrWGS84(e)]

\* Hundredths of a metre per 1000 coordinate units for each calculator
\* configuration.  The length engine is an external service; the model
\* keeps of it that the result is a function of the configuration and the
\* two points, and that different configurations measure differently.
MetricOf(da) ==
    IF da.crs = "EPSG:4326"
    THEN (IF da.ellipsoid = "NONE" THEN 1000 ELSE 1113)
    ELSE (IF da.ellipsoid = "NONE" THEN 900 ELSE 707)

\* da.measureLength(QgsGeometry.fromPolylineXY([p1, p2])), in hundredths of
\* a metre.
measureLength(da, p1, p2) ==
    (MetricOf(da) * (Abs(p2[1] - p1[1]) + Abs(p2[2] - p1[2]))) \div 1000


\* ------------------------------------------------------------------ state
VARIABLES
    toolbar,            \* AdvancedMeasureTool.toolbar is not None
    measure_action,     \* AdvancedMeasureTool.measure_action is not None
    window_toolbar,     \* the main window shows the plugin's toolbar
    tool,               \* AdvancedMeasureTool.tool is not None
    mapTool,            \* canvas.mapTool() == self.tool
    checked,            \* measure_action.isChecked()
    table_rows,         \* _MeasureMapTool.table_rows
    n,                  \* _MeasureMapTool.n
    var_cum_length_m,   \* _MeasureMapTool.var_cum_length_m (hundredths of m)
    last_point,         \* _MeasureMapTool.last_point
    click_count,        \* _MeasureMapTool.click_count
    is_measuring,       \* _MeasureMapTool.is_measuring
    temp_rb,            \* vertices of the preview rubber band
    main_rb,            \* vertices of the committed rubber band
    da,                 \* _MeasureMapTool.da, configured in __init__
    point_id_counter,   \* _MeasureMapTool.point_id_counter
    canvas_crs,         \* canvas.mapSettings().destinationCrs()
    project_ellipsoid,  \* QgsProject.instance().ellipsoid()
    message,            \* output: the message the last step pushed to the
                        \* message bar, NoMessage when it pushed none
    added_layer,        \* output: the layer the last step added to the
                        \* project, NoLayer when it added none
    lastEvent           \* history: the event handled by the last step

sessionVars == << table_rows, n, var_cum_length_m, last_point, click_count,
                  is_measuring, point_id_counter >>
overlayVars == << temp_rb, main_rb >>
guiVars == << toolbar, measure_action, window_toolbar >>
pluginVars == << tool, mapTool, checked, da, toolbar, measure_action,
                 window_toolbar >>
hostVars == << canvas_crs, project_ellipsoid >>
vars == << toolbar, measure_action, window_toolbar,
           tool, mapTool, checked, table_rows, n, var_cum_length_m,
           last_point, click_count, is_measuring, temp_rb, main_rb, da,
           point_id_counter, canvas_crs, project_ellipsoid, message,
           added_layer, lastEvent >>

\* The calculator of a tool that has not been constructed yet.
NoDa == [crs |-> "", ellipsoid |-> ""]

\* AdvancedMeasureTool.__init__ has run; the map tool does not exist yet, its
\* fields hold what _MeasureMapTool.__init__ will give them.
Init ==
    /\ toolbar = FALSE
    /\ measure_action = FALSE
    /\ window_toolbar = FALSE
    /\ tool = FALSE
    /\ mapTool = FALSE
    /\ checked = FALSE
    /\ table_rows = << >>
    /\ n = 0
    /\ var_cum_length_m = 0
    /\ last_point = NoPoint
    /\ click_count = 0
    /\ is_measuring = FALSE
    /\ temp_rb = << >>
    /\ main_rb = << >>
    /\ da = NoDa
    /\ point_id_counter = 0
    /\ canvas_crs \in CrsSet
    /\ project_ellipsoid \in EllipsoidSet
    /\ message = NoMessage
    /\ added_layer = NoLayer
    /\ lastEvent = "init"

\* ---------------------------------------------------------- the table rows
\* Mutant of NewRow: the start vertex is stored unrounded.
NewRowUnrounded(id, pt) ==
    [ Line_ID |-> id,
      P1x |-> pt[1], P1y |-> pt[2],
      P2x |-> None, P2y |-> None,
      length_m |-> None, length_nm |-> None,
      cum_length_m |-> None, cum_length_nm |-> None ]

\* The row canvasPressEvent appends: only Line_ID and the rounded P1.
NewRow(id, pt) ==
    [ Line_ID |-> id,
      P1x |-> Round6(pt[1]), P1y |-> Round6(pt[2]),
      P2x |-> None, P2y |-> None,
      length_m |-> None, length_nm |-> None,
      cum_length_m |-> None, cum_length_nm |-> None ]

\* Mutant of NextId: the counter is not incremented.
NextIdStuck(counter) == counter

\* self.point_id_counter += 1: the id of the row about to be appended.
NextId(counter) == counter + 1

\* Mutant of FillP2: the end vertex is not stored.
FillP2Forgotten(rows, idx, pt) == rows

\* self.table_rows[idx]['P2x'] = round(pt.x(), 6), and P2y likewise.
\* idx is the 0-based Python index.
FillP2(rows, idx, pt) ==
    [rows EXCEPT ![idx + 1] =
        [@ EXCEPT !.P2x = Round6(pt[1]), !.P2y = Round6(pt[2])]]

\* Mutant of measure_length_dynamic: the calculator configured in __init__
\* is reused.
measure_length_cached(crs, ellipsoid, p1, p2) == measureLength(da, p1, p2)

\* _measure_length_dynamic: a fresh calculator configured from the canvas and
\* the project as they are at the call.
measure_length_dynamic(crs, ellipsoid, p1, p2) ==
    measureLength(DistanceArea(crs, ellipsoid), p1, p2)

\* Mutant of calculate_segment: the accumulator is assigned the segment's
\* length instead of being incremented by it.
calculate_segment_assigns(rows, idx, cum, crs, ellipsoid) ==
    LET r == rows[idx + 1]
        p1 == << r.P1x, r.P1y >>
        p2 == << r.P2x, r.P2y >>
        length_m == measure_length_dynamic(crs, ellipsoid, p1, p2)
        new_cum == length_m
    IN  [ rows |-> [rows EXCEPT ![idx + 1] =
                      [@ EXCEPT !.length_m = Round1(length_m),
                                !.length_nm = RoundNm(length_m),
                                !.cum_length_m = Round1(new_cum),
                                !.cum_length_nm = RoundNm(new_cum)]],
          cum |-> new_cum ]

\* calculate_segment(idx): the new table and the new accumulator.  The two
\* points are read back from the row, that is, the rounded coordinates.
calculate_segment(rows, idx, cum, crs, ellipsoid) ==
    LET r == rows[idx + 1]
        p1 == << r.P1x, r.P1y >>
        p2 == << r.P2x, r.P2y >>
        length_m == measure_length_dynamic(crs, ellipsoid, p1, p2)
        new_cum == cum + length_m
    IN  [ rows |-> [rows EXCEPT ![idx + 1] =
                      [@ EXCEPT !.length_m = Round1(length_m),
                                !.length_nm = RoundNm(length_m),
                                !.cum_length_m = Round1(new_cum),
                                !.cum_length_nm = RoundNm(new_cum)]],
          cum |-> new_cum ]

\* ------------------------------------------------------------ the plugin
\* AdvancedMeasureTool.initGui: the toolbar and the checkable action on it.
\* The host calls it once, after __init__.
initGui ==
    /\ ~measure_action
    /\ toolbar' = TRUE
    /\ measure_action' = TRUE
    /\ window_toolbar' = TRUE
    /\ lastEvent' = "initGui"
    /\ message' = NoMessage
    /\ added_layer' = NoLayer
    /\ UNCHANGED << tool, mapTool, checked, da, sessionVars, overlayVars,
                    hostVars >>

\* _MeasureMapTool.__init__: the fields of a newly constructed map tool.
MeasureMapTool_init ==
    /\ table_rows' = << >>
    /\ n' = 0
    /\ var_cum_length_m' = 0
    /\ last_point' = NoPoint
    /\ click_count' = 0
    /\ is_measuring' = FALSE
    /\ temp_rb' = << >>
    /\ main_rb' = << >>
    /\ da' = DistanceArea(canvas_crs, project_ellipsoid)
    /\ point_id_counter' = 0

\* AdvancedMeasureTool.toggle_tool, triggered by the action on the toolbar:
\* constructs the map tool when there is none and then only sets or unsets
\* it on the canvas.
toggle_tool ==
    /\ measure_action
    /\ window_toolbar
    /\ tool' = TRUE
    /\ IF tool
       THEN UNCHANGED << da, sessionVars, overlayVars >>
       ELSE MeasureMapTool_init
    /\ mapTool' = ~mapTool
    /\ checked' = ~mapTool
    /\ lastEvent' = "toggle"
    /\ message' = NoMessage
    /\ added_layer' = NoLayer
    /\ UNCHANGED << guiVars, hostVars >>

\* The event an unload() step is recorded as.
UnloadEvent(had_toolbar, outcome) ==
    IF ~had_toolbar THEN "unload_no_toolbar"
    ELSE IF outcome = "removed" THEN "unload_removed"
    ELSE IF outcome = "fallback" THEN "unload_fallback"
    ELSE "unload_failed"

UnloadEvents ==
    { "unload_no_toolbar", "unload_removed", "unload_fallback",
      "unload_failed" }

\* Lines 55-57 of unload: the map tool is unset and dropped when it is the
\* canvas's current tool.  The dropped tool's fields stay as they were until
\* toggle_tool constructs a new tool.
UnloadTool ==
    IF tool /\ mapTool
    THEN mapTool' = FALSE /\ tool' = FALSE
    ELSE UNCHANGED << tool, mapTool >>

\* Mutant of unload: no exception handler around the removal, a failing
\* removeToolBar ends unload() at line 47.
unloadUnprotected(outcome) ==
    /\ toolbar => outcome \in RemovalOutcomes
    /\ ~toolbar => outcome = "removed"
    /\ lastEvent' = UnloadEvent(toolbar, outcome)
    /\ IF toolbar /\ outcome # "removed"
       THEN UNCHANGED << toolbar, window_toolbar, tool, mapTool >>
       ELSE /\ toolbar' = FALSE
            /\ window_toolbar' = IF toolbar THEN FALSE ELSE window_toolbar
            /\ UnloadTool
    /\ message' = NoMessage
    /\ added_layer' = NoLayer
    /\ UNCHANGED << measure_action, checked, da, sessionVars, overlayVars,
                    hostVars >>

\* AdvancedMeasureTool.unload, the removal of the toolbar going as outcome
\* says.  An exception of either removeToolBar is caught; the toolbar
\* reference is cleared in every case, and the map tool is handled after it.
unload(outcome) ==
    /\ toolbar => outcome \in RemovalOutcomes
    /\ ~toolbar => outcome = "removed"
    /\ lastEvent' = UnloadEvent(toolbar, outcome)
    /\ toolbar' = FALSE
    /\ window_toolbar' =
          IF toolbar /\ outcome \in { "removed", "fallback" }
          THEN FALSE ELSE window_toolbar
    /\ UnloadTool
    /\ message' = NoMessage
    /\ added_layer' = NoLayer
    /\ UNCHANGED << measure_action, checked, da, sessionVars, overlayVars,
                    hostVars >>

\* ------------------------------------------------------------- the host
\* The user gives the canvas another destination reference system.
setDestinationCrs(crs) ==
    /\ crs # canvas_crs
    /\ canvas_crs' = crs
    /\ lastEvent' = "crs"
    /\ message' = NoMessage
    /\ added_layer' = NoLayer
    /\ UNCHANGED << pluginVars, sessionVars, overlayVars, project_ellipsoid >>



\* ------------------------------------------------- the map tool: clicks
\* start_new_measurement: the values it assigns.
start_new_measurement ==
    [ is_measuring |-> TRUE,
      table_rows |-> << >>,
      n |-> 0,
      point_id_counter |-> 0,
      var_cum_length_m |-> 0,
      click_count |-> 1,
      last_point |-> NoPoint,
      main_rb |-> << >>,
      temp_rb |-> << >> ]

\* canvasPressEvent, branch click_count == 1: a new session whose table is
\* one open row.
FirstClick(pt) ==
    LET s == start_new_measurement
    IN  /\ is_measuring' = s.is_measuring
        /\ n' = s.n
        /\ var_cum_length_m' = s.var_cum_length_m
        /\ click_count' = s.click_count
        /\ main_rb' = s.main_rb
        /\ temp_rb' = s.temp_rb
        /\ last_point' = pt
        /\ point_id_counter' = NextId(s.point_id_counter)
        /\ table_rows' =
              Append(s.table_rows, NewRow(NextId(s.point_id_counter), pt))

\* Mutant of DrawSegment: only the end vertex is added.
DrawSegmentEndOnly(rb, p1, p2) == Append(rb, p2)

\* self.main_rb.addPoint(self.last_point); self.main_rb.addPoint(pt)
DrawSegment(rb, p1, p2) == rb \o << p1, p2 >>

\* Mutant of NextIndex: n is not advanced.
NextIndexStuck(idx) == idx

\* self.n += 1
NextIndex(idx) == idx + 1

\* canvasPressEvent, else branch: the row at n gets its P2 and its lengths,
\* the segment is drawn, and a new open row starts at the click.  An n that
\* is no index of the table raises IndexError at the first assignment, after
\* click_count was incremented.
NextClick(pt) ==
    /\ click_count' = click_count + 1
    /\ IF n + 1 \in DOMAIN table_rows
       THEN LET c == calculate_segment(FillP2(table_rows, n, pt), n,
                                       var_cum_length_m, canvas_crs,
                                       project_ellipsoid)
            IN  /\ var_cum_length_m' = c.cum
                /\ main_rb' = DrawSegment(main_rb, last_point, pt)
                /\ last_point' = pt
                /\ point_id_counter' = NextId(point_id_counter)
                /\ n' = NextIndex(n)
                /\ table_rows' =
                      Append(c.rows, NewRow(NextId(point_id_counter), pt))
       ELSE UNCHANGED << table_rows, n, var_cum_length_m, last_point,
                         point_id_counter, main_rb >>
    /\ UNCHANGED << is_measuring, temp_rb >>

\* canvasPressEvent(event), event.button() = button and
\* toMapCoordinates(event.pos()) = pt.
canvasPressEvent(button, pt) ==
    /\ mapTool
    /\ IF button # "LeftButton"
       THEN /\ lastEvent' = "press_other"
            /\ UNCHANGED << sessionVars, overlayVars >>
       ELSE /\ click_count < MaxClicks
            /\ lastEvent' = "press_left"
            /\ IF click_count + 1 = 1 THEN FirstClick(pt) ELSE NextClick(pt)
    /\ message' = NoMessage
    /\ added_layer' = NoLayer
    /\ UNCHANGED << pluginVars, hostVars >>

\* --------------------------------------------------- the map tool: moves
\* The text pushed by canvasMoveEvent: the four formatted numbers.
PreviewMessage(length_m, cum_m) ==
    << "Measure", Round1(length_m), RoundNm(length_m),
       Round1(cum_m), RoundNm(cum_m) >>

\* Mutant of canvasMoveEvent: the guard tests last_point only.
canvasMoveEventUnguarded(cur_pt) ==
    /\ mapTool
    /\ lastEvent' = "move"
    /\ IF last_point = NoPoint
       THEN /\ message' = NoMessage
            /\ UNCHANGED temp_rb
       ELSE LET length_m == measureLength(da, last_point, cur_pt)
            IN  /\ temp_rb' = << last_point, cur_pt >>
                /\ message' =
                      PreviewMessage(length_m, var_cum_length_m + length_m)
    /\ added_layer' = NoLayer
    /\ UNCHANGED << pluginVars, hostVars, sessionVars, main_rb >>

\* canvasMoveEvent(event), toMapCoordinates(event.pos()) = cur_pt.  The
\* length comes from self.da, the calculator configured in __init__.
canvasMoveEvent(cur_pt) ==
    /\ mapTool
    /\ lastEvent' = "move"
    /\ IF ~is_measuring \/ last_point = NoPoint
       THEN /\ message' = NoMessage
            /\ UNCHANGED temp_rb
       ELSE LET length_m == measureLength(da, last_point, cur_pt)
            IN  /\ temp_rb' = << last_point, cur_pt >>
                /\ message' =
                      PreviewMessage(length_m, var_cum_length_m + length_m)
    /\ added_layer' = NoLayer
    /\ UNCHANGED << pluginVars, hostVars, sessionVars, main_rb >>

\* ---------------------------------------------------- the map tool: keys
CancelMessage == << "AdvancedMeasureTool", "Measurement cancelled" >>

\* Mutant of keyPressEvent: Escape also resets the session.
keyPressEventResets(key) ==
    /\ mapTool
    /\ IF key = "Key_Escape"
       THEN /\ lastEvent' = "key_escape"
            /\ main_rb' = << >>
            /\ temp_rb' = << >>
            /\ message' = CancelMessage
            /\ table_rows' = << >>
            /\ n' = 0
            /\ point_id_counter' = 0
            /\ var_cum_length_m' = 0
            /\ click_count' = 0
            /\ last_point' = NoPoint
            /\ is_measuring' = FALSE
       ELSE /\ lastEvent' = "key_other"
            /\ message' = NoMessage
            /\ UNCHANGED << overlayVars, sessionVars >>
    /\ UNCHANGED << pluginVars, hostVars >>
    /\ added_layer' = NoLayer

\* keyPressEvent(event), event.key() = key.
keyPressEvent(key) ==
    /\ mapTool
    /\ IF key = "Key_Escape"
       THEN /\ lastEvent' = "key_escape"
            /\ main_rb' = << >>
            /\ temp_rb' = << >>
            /\ message' = CancelMessage
       ELSE /\ lastEvent' = "key_other"
            /\ message' = NoMessage
            /\ UNCHANGED overlayVars
    /\ UNCHANGED << pluginVars, hostVars, sessionVars >>
    /\ added_layer' = NoLayer


\* ------------------------------------------- the map tool: finalization
\* Mutant of FinalRows: the open row is not filtered out.
FinalRowsUnfiltered(rows) == rows

\* [r for r in self.table_rows if r['P2x'] is not None]
FinalRows(rows) == SelectSeq(rows, LAMBDA r : r.P2x # None)

\* QgsCoordinateTransform(crs, EPSG:4326).transform(p): an external service;
\* the model keeps of it that it is a function of the point that is not the
\* identity (roughly 111320 m to the degree).
TransformToWgs84(p) == << p[1] \div 111320, p[2] \div 111320 >>

\* f"{v:.4f}" of a coordinate, in units of 1e-4.
Format4(v) == RoundDiv(v, 1000)

\* The "lat, lon" text of one endpoint.
PointText(crs, p) ==
    LET g == IF isGeographic(crs) THEN p ELSE TransformToWgs84(p)
    IN  << Format4(g[2]), Format4(g[1]) >>

\* The feature built from one complete row.
Feature(crs, r) ==
    [ geometry |-> << << r.P1x, r.P1y >>, << r.P2x, r.P2y >> >>,
      Line_ID |-> r.Line_ID,
      Start |-> PointText(crs, << r.P1x, r.P1y >>),
      Stop |-> PointText(crs, << r.P2x, r.P2y >>),
      length_m |-> r.length_m,
      length_nm |-> r.length_nm,
      cum_length_m |-> r.cum_length_m,
      cum_length_nm |-> r.cum_length_nm ]

\* The memory layer finish_measurement adds to the project.
Layer(crs, final_rows) ==
    [ crs |-> crs,
      features |-> [i \in DOMAIN final_rows |-> Feature(crs, final_rows[i])] ]

\* Mutant of FinishReset: click_count is not reset.
FinishResetKeepsClickCount ==
    /\ table_rows' = << >>
    /\ n' = 0
    /\ point_id_counter' = 0
    /\ var_cum_length_m' = 0
    /\ last_point' = NoPoint
    /\ is_measuring' = FALSE
    /\ main_rb' = << >>
    /\ UNCHANGED click_count

\* Mutant of FinishReset: the accumulator is not reset.
FinishResetKeepsAccumulator ==
    /\ table_rows' = << >>
    /\ n' = 0
    /\ point_id_counter' = 0
    /\ click_count' = 0
    /\ last_point' = NoPoint
    /\ is_measuring' = FALSE
    /\ main_rb' = << >>
    /\ UNCHANGED var_cum_length_m

\* finish_measurement, lines 291-301: the reset after the layer was added.
FinishReset ==
    /\ table_rows' = << >>
    /\ n' = 0
    /\ point_id_counter' = 0
    /\ var_cum_length_m' = 0
    /\ click_count' = 0
    /\ last_point' = NoPoint
    /\ is_measuring' = FALSE
    /\ main_rb' = << >>

\* finish_measurement: with no complete row it returns right after clearing
\* is_measuring; otherwise it adds the layer and resets the session.
finish_measurement ==
    LET final_rows == FinalRows(table_rows)
    IN  IF Len(final_rows) = 0
        THEN /\ is_measuring' = FALSE
             /\ added_layer' = NoLayer
             /\ UNCHANGED << table_rows, n, point_id_counter,
                             var_cum_length_m, click_count, last_point,
                             main_rb >>
        ELSE /\ added_layer' = Layer(canvas_crs, final_rows)
             /\ FinishReset

\* canvasDoubleClickEvent(event).
canvasDoubleClickEvent ==
    /\ mapTool
    /\ lastEvent' = "double_click"
    /\ IF ~is_measuring
       THEN /\ added_layer' = NoLayer
            /\ UNCHANGED << sessionVars, overlayVars >>
       ELSE /\ temp_rb' = << >>
            /\ finish_measurement
    /\ message' = NoMessage
    /\ UNCHANGED << pluginVars, hostVars >>

\* --------------------------------------------------------- specification
Next ==
    \/ initGui
    \/ toggle_tool
    \/ \E crs \in CrsSet : setDestinationCrs(crs)
    \/ \E button \in Buttons, pt \in Points : canvasPressEvent(button, pt)
    \/ \E cur_pt \in Points : canvasMoveEvent(cur_pt)
    \/ canvasDoubleClickEvent
    \/ \E key \in Keys : keyPressEvent(key)

\* The life of the loaded plugin, up to its unloading.
Spec == Init /\ [][Next]_vars

\* The same with unload() at any moment and whatever can follow it, over
\* shorter sessions.
ShortSession == click_count' <= MaxUnloadClicks

NextUnload ==
    \/ initGui
    \/ toggle_tool
    \/ \E crs \in CrsSet : setDestinationCrs(crs)
    \/ \E button \in Buttons, pt \in Points :
          canvasPressEvent(button, pt) /\ ShortSession
    \/ \E cur_pt \in Points : canvasMoveEvent(cur_pt)
    \/ canvasDoubleClickEvent
    \/ \E key \in Keys : keyPressEvent(key)
    \/ \E outcome \in RemovalOutcomes : unload(outcome)

SpecUnload == Init /\ [][NextUnload]_vars


\* ------------------------------------------------------------ properties
\* A row is complete when its end vertex is set.
IsComplete(r) == r.P2x # None /\ r.P2y # None

\* The positions of the complete rows of a table.
CompleteRows(rows) == { i \in DOMAIN rows : IsComplete(rows[i]) }

\* C1: once n >= 2 left-clicks have been accepted in the session, the table
\* has exactly n rows, exactly n-1 of them complete, and the row at 0-based
\* position i carries Line_ID i+1, so the complete segments carry the ids
\* 1..n-1 without gap or repeat.
C1_RowsAndIdsFollowClicks ==
    click_count >= 2 =>
        /\ Len(table_rows) = click_count
        /\ Cardinality(CompleteRows(table_rows)) = click_count - 1
        /\ \A i \in DOMAIN table_rows : table_rows[i].Line_ID = i
        /\ { table_rows[i].Line_ID : i \in CompleteRows(table_rows) }
              = 1 .. (click_count - 1)

\* C1 witness: a third click was just accepted, two segments are complete.
C1_Witness ==
    /\ lastEvent = "press_left"
    /\ click_count = 3
    /\ Cardinality(CompleteRows(table_rows)) = 2

\* C2: at most one row has an undefined end vertex, such a row is the last
\* one, and every earlier row is complete with its lengths set.
C2_OnlyLastRowOpen ==
    /\ Cardinality({ i \in DOMAIN table_rows : table_rows[i].P2x = None }) <= 1
    /\ \A i \in DOMAIN table_rows :
          /\ table_rows[i].P2x = None => i = Len(table_rows)
          /\ i < Len(table_rows) =>
                /\ IsComplete(table_rows[i])
                /\ table_rows[i].length_m # None
                /\ table_rows[i].length_nm # None
                /\ table_rows[i].cum_length_m # None
                /\ table_rows[i].cum_length_nm # None

\* C2 witness: a table of three rows whose last row is the open one.
C2_Witness ==
    /\ Len(table_rows) = 3
    /\ table_rows[3].P2x = None
    /\ IsComplete(table_rows[1])
    /\ IsComplete(table_rows[2])


\* The session state as start_new_measurement and the reset of
\* finish_measurement leave it, with no session in progress.
SessionIsReset ==
    /\ table_rows = << >>
    /\ point_id_counter = 0
    /\ var_cum_length_m = 0
    /\ last_point = NoPoint
    /\ click_count = 0
    /\ ~is_measuring

\* C3: a double-click on a session whose table holds no complete segment
\* adds no layer and leaves the session reset: table empty, id counter 0,
\* accumulator 0, last_point none, click count 0, not active.
C3_FinishWithoutSegmentResets ==
    [][ (lastEvent' = "double_click" /\ CompleteRows(table_rows) = {})
            => (added_layer' = NoLayer /\ SessionIsReset') ]_vars

\* C4: finish() on an active session with complete segments adds one layer
\* with exactly one feature per complete row, in table order, whose Line_ID
\* and four lengths are the values stored in that row; the open row yields
\* no feature.
C4_OneFeaturePerCompleteRow ==
    [][ (lastEvent' = "double_click" /\ is_measuring
            /\ CompleteRows(table_rows) # {})
        => LET F == added_layer'.features
               K == Cardinality(CompleteRows(table_rows))
           IN  /\ added_layer' # NoLayer
               /\ Len(F) = K
               /\ \A i \in 1 .. K :
                     /\ IsComplete(table_rows[i])
                     /\ F[i].Line_ID = table_rows[i].Line_ID
                     /\ F[i].length_m = table_rows[i].length_m
                     /\ F[i].length_nm = table_rows[i].length_nm
                     /\ F[i].cum_length_m = table_rows[i].cum_length_m
                     /\ F[i].cum_length_nm = table_rows[i].cum_length_nm
               /\ \A i \in DOMAIN F : F[i].length_m # None
                                       /\ F[i].geometry[2][1] # None ]_vars

\* C4 witness: a double-click just added a layer of two features.
C4_Witness ==
    /\ lastEvent = "double_click"
    /\ added_layer # NoLayer
    /\ Len(added_layer.features) = 2
    /\ added_layer.features[2].Line_ID = 2

\* C5: finish() on a session with a complete segment leaves the table empty,
\* the id counter 0, the accumulator 0, last_point none, the session not
\* active and both overlays empty; and a click on a session in that state
\* starts a new one: a single open row with Line_ID 1, accumulator 0.
C5_FinishResetsAndNextClickIsFresh ==
    [][ /\ (lastEvent' = "double_click" /\ added_layer' # NoLayer)
            => (SessionIsReset' /\ temp_rb' = << >> /\ main_rb' = << >>)
        /\ (click_count = 0 /\ lastEvent' = "press_left")
            => /\ Len(table_rows') = 1
               /\ table_rows'[1].Line_ID = 1
               /\ ~IsComplete(table_rows'[1])
               /\ table_rows'[1].cum_length_m = None
               /\ var_cum_length_m' = 0
               /\ point_id_counter' = 1
               /\ main_rb' = << >>
               /\ is_measuring' ]_vars

\* C5 witness: a double-click just added a layer and the session is reset.
C5_Witness ==
    /\ lastEvent = "double_click"
    /\ added_layer # NoLayer
    /\ SessionIsReset
    /\ main_rb = << >>


\* C6: Escape empties the committed and the preview overlay and leaves the
\* table (its open row included), the id counter, the accumulator,
\* last_point, the click count and the active flag as they were.
C6_EscapeClearsOverlaysOnly ==
    [][ lastEvent' = "key_escape"
        => /\ main_rb' = << >>
           /\ temp_rb' = << >>
           /\ table_rows' = table_rows
           /\ point_id_counter' = point_id_counter
           /\ var_cum_length_m' = var_cum_length_m
           /\ last_point' = last_point
           /\ click_count' = click_count
           /\ is_measuring' = is_measuring ]_vars

\* C6 witness: Escape was just pressed in a session that has a complete
\* segment and an open one; the overlays are empty, the table is not.
C6_Witness ==
    /\ lastEvent = "key_escape"
    /\ is_measuring
    /\ Len(table_rows) = 2
    /\ IsComplete(table_rows[1])
    /\ ~IsComplete(table_rows[2])
    /\ main_rb = << >>
    /\ temp_rb = << >>

\* C7: toggling the tool off discards the session, so that the first click
\* after the tool is toggled on is the first click of a new session: the
\* table becomes one open row with Line_ID 1, the accumulator is 0, and no
\* segment starting at an earlier vertex is completed.
C7_ClickAfterToggleStartsFreshSession ==
    [][ (lastEvent = "toggle" /\ mapTool /\ lastEvent' = "press_left")
        => /\ Len(table_rows') = 1
           /\ table_rows'[1].Line_ID = 1
           /\ ~IsComplete(table_rows'[1])
           /\ CompleteRows(table_rows') = {}
           /\ var_cum_length_m' = 0 ]_vars

\* The sum of the stored length_m of rows 1..k.
RECURSIVE SumLengthM(_, _)
SumLengthM(rows, k) ==
    IF k = 0 THEN 0 ELSE rows[k].length_m + SumLengthM(rows, k - 1)

\* C8 as stated: the stored cum_length_m of every complete segment k equals
\* the sum of the stored length_m of segments 1..k.
C8_CumEqualsSumOfStored ==
    \A k \in CompleteRows(table_rows) :
        table_rows[k].cum_length_m = SumLengthM(table_rows, k)

\* C8 amended: the stored cum_length_m is the accumulator (the sum of the
\* unrounded lengths) rounded to one decimal, so it agrees with the sum of
\* the stored, separately rounded length_m of segments 1..k only to
\* rounding precision: the two differ by at most 0.05 m for each of the k+1
\* roundings involved; and it never decreases along the table.  (Stored
\* values are in tenths of a metre.)
C8_CumWithinRoundingOfSum ==
    /\ \A k \in CompleteRows(table_rows) :
          /\ 2 * Abs(table_rows[k].cum_length_m - SumLengthM(table_rows, k))
                <= k + 1
          /\ k > 1 => table_rows[k].cum_length_m
                         >= table_rows[k - 1].cum_length_m
    /\ \A k \in CompleteRows(table_rows) :
          (k + 1 = Len(table_rows)) =>
              table_rows[k].cum_length_m = Round1(var_cum_length_m)

\* C8 witness: two complete segments whose stored cum_length_m is not the
\* sum of the two stored length_m.
C8_Witness ==
    /\ Len(table_rows) = 3
    /\ IsComplete(table_rows[2])
    /\ table_rows[2].cum_length_m
          # table_rows[1].length_m + table_rows[2].length_m

\* C9: a pointer move never changes the table, the id counter, the
\* accumulator, last_point, the click count, the active flag or the
\* committed overlay; with no active session or no last_point it also leaves
\* the preview overlay as it was and pushes no status message.
C9_MoveOnlyPreviews ==
    [][ lastEvent' = "move"
        => /\ table_rows' = table_rows
           /\ point_id_counter' = point_id_counter
           /\ var_cum_length_m' = var_cum_length_m
           /\ last_point' = last_point
           /\ click_count' = click_count
           /\ is_measuring' = is_measuring
           /\ main_rb' = main_rb
           /\ (~is_measuring \/ last_point = NoPoint)
                 => (temp_rb' = temp_rb /\ message' = NoMessage) ]_vars

\* C9 witness: the pointer just moved over a session that is not active but
\* still has a last_point; nothing was previewed.
C9_Witness ==
    /\ lastEvent = "move"
    /\ ~is_measuring
    /\ last_point # NoPoint
    /\ temp_rb = << >>
    /\ message = NoMessage

\* C10: the length stored by a completing click is the length measured with
\* the canvas reference system and the project ellipsoid as they are at that
\* click, also when they differ from those the tool was constructed with.
C10_ClickMeasuresWithCurrentCrs ==
    [][ (lastEvent' = "press_left" /\ click_count >= 1)
        => LET r == table_rows'[Len(table_rows)]
               l == measureLength(
                       DistanceArea(canvas_crs', project_ellipsoid'),
                       << r.P1x, r.P1y >>, << r.P2x, r.P2y >>)
           IN  /\ IsComplete(r)
               /\ r.length_m = Round1(l)
               /\ r.length_nm = RoundNm(l) ]_vars

\* C10 witness: a click just completed a segment under a reference system
\* other than the one the tool was constructed with, and the stored length
\* is not what the construction-time calculator gives.
C10_Witness ==
    /\ lastEvent = "press_left"
    /\ Len(table_rows) >= 2
    /\ da.crs # canvas_crs
    /\ LET r == table_rows[Len(table_rows) - 1]
       IN  r.length_m # Round1(measureLength(da, << r.P1x, r.P1y >>,
                                             << r.P2x, r.P2y >>))


\* C11: the length a pointer move reports is measured with the canvas
\* reference system and the project ellipsoid as they are at that move, the
\* same configuration a click at that instant measures with; the calculator
\* configured when the tool was constructed is not reused.
C11_PreviewMeasuresWithCurrentCrs ==
    [][ (lastEvent' = "move" /\ is_measuring /\ last_point # NoPoint)
        => LET cur_pt == temp_rb'[2]
               l == measure_length_dynamic(canvas_crs, project_ellipsoid,
                                           last_point, cur_pt)
           IN  message' = PreviewMessage(l, var_cum_length_m + l) ]_vars

\* C12: a right-button press in a session with a complete segment undoes one
\* step: the most recently completed segment leaves the table, and the
\* table, last_point and the accumulator differ from what they were.
C12_RightClickUndoes ==
    [][ (lastEvent' = "press_other" /\ CompleteRows(table_rows) # {})
        => /\ Cardinality(CompleteRows(table_rows'))
                 = Cardinality(CompleteRows(table_rows)) - 1
           /\ table_rows' # table_rows ]_vars

\* C13: the length stored by a completing click is the rounding of the
\* distance between the raw, unrounded coordinates of the two clicks; the
\* 6-decimal rounding of the stored vertices does not enter the distance.
C13_LengthFromRawCoordinates ==
    [][ (lastEvent' = "press_left" /\ click_count >= 1)
        => LET r == table_rows'[Len(table_rows)]
               l == measure_length_dynamic(canvas_crs, project_ellipsoid,
                                           last_point, last_point')
           IN  /\ r.length_m = Round1(l)
               /\ r.length_nm = RoundNm(l) ]_vars

\* C14: whenever the table holds a complete segment, a double-click
\* finalizes the session: it adds the layer for those segments and resets
\* the session.
C14_DoubleClickAlwaysFinalizes ==
    [][ (lastEvent' = "double_click" /\ CompleteRows(table_rows) # {})
        => (added_layer' # NoLayer /\ SessionIsReset') ]_vars

\* C15: the active flag is true exactly when a click is registered: the
\* click count is at least 1 exactly when the table is non-empty, and exactly
\* then the session is active.
C15_ActiveIffClicked ==
    /\ is_measuring <=> click_count >= 1
    /\ click_count >= 1 <=> table_rows # << >>


\* The complete rows of a table, in table order.
CompleteSeq(rows) == SelectSeq(rows, IsComplete)

\* C16: the accumulator is the sum of the unrounded lengths of the complete
\* segments of the table.  Step by step: it is 0 when no segment is
\* complete; it changes only by a click that completes a segment, which adds
\* that segment's unrounded length and leaves the earlier segments as they
\* were, or by a reset to 0 together with the table in start/finish; and the
\* cum_length_m and cum_length_nm stored for the last complete segment are
\* the accumulator rounded to 1 and 2 decimals.
C16_AccumulatorIsSumOfUnrounded ==
    [][ LET old == CompleteSeq(table_rows)
            new == CompleteSeq(table_rows')
        IN  /\ new = << >> => var_cum_length_m' = 0
            /\ new # << >> =>
                  /\ new[Len(new)].cum_length_m = Round1(var_cum_length_m')
                  /\ new[Len(new)].cum_length_nm = RoundNm(var_cum_length_m')
            /\ \/ var_cum_length_m' = var_cum_length_m /\ new = old
               \/ /\ lastEvent' = "press_left"
                  /\ Len(new) = Len(old) + 1
                  /\ SubSeq(new, 1, Len(old)) = old
                  /\ LET r == new[Len(new)]
                         l == measureLength(
                                 DistanceArea(canvas_crs, project_ellipsoid),
                                 << r.P1x, r.P1y >>, << r.P2x, r.P2y >>)
                     IN  /\ var_cum_length_m' = var_cum_length_m + l
                         /\ r.length_m = Round1(l)
               \/ /\ lastEvent' \in { "press_left", "double_click" }
                  /\ new = << >>
                  /\ var_cum_length_m' = 0 ]_vars

\* C16 witness: a click just completed the second segment of non-zero
\* length; the accumulator is positive and its rounding is stored.
C16_Witness ==
    /\ lastEvent = "press_left"
    /\ Len(table_rows) = 3
    /\ table_rows[1].length_m > 0
    /\ table_rows[2].length_m > 0
    /\ var_cum_length_m > 0
    /\ table_rows[2].cum_length_m = Round1(var_cum_length_m)


\* The point stored in the table for a clicked point.
Stored(pt) == << Round6(pt[1]), Round6(pt[2]) >>

\* The committed overlay depicts the last Len(main_rb) / 2 complete rows of
\* the table: two vertices per row, in table order, each the click that the
\* row stores rounded.
OverlayDepictsLastComplete ==
    LET rows == CompleteSeq(table_rows)
        m == Len(main_rb) \div 2
    IN  /\ Len(main_rb) = 2 * m
        /\ m <= Len(rows)
        /\ \A j \in 1 .. m :
              LET r == rows[Len(rows) - m + j]
              IN  /\ Stored(main_rb[2 * j - 1]) = << r.P1x, r.P1y >>
                  /\ Stored(main_rb[2 * j]) = << r.P2x, r.P2y >>

\* The complete rows the committed overlay does not depict.
Undepicted == Len(CompleteSeq(table_rows)) - Len(main_rb) \div 2

\* C17 as stated: in every reachable state the committed overlay holds
\* exactly two vertices for each complete segment of the table, in table
\* order.
C17_OverlayDepictsAllComplete ==
    OverlayDepictsLastComplete /\ Undepicted = 0

\* C17 amended: the committed overlay holds exactly two vertices (start,
\* end), in table order, for each segment completed since the last Escape
\* press of the session: Escape empties the overlay while the complete
\* segments stay in the table, and no other event makes the overlay and the
\* table drift apart.
C17_OverlayDepictsCompleteSinceEscape ==
    [][ /\ OverlayDepictsLastComplete'
        /\ lastEvent' = "key_escape"
              => (main_rb' = << >> /\ table_rows' = table_rows)
        /\ lastEvent' # "key_escape"
              => (Undepicted' = Undepicted \/ Undepicted' = 0) ]_vars

\* C17 witness: Escape was pressed after the first segment and a second one
\* was completed since: the overlay depicts the second segment only.
C17_Witness ==
    /\ Len(CompleteSeq(table_rows)) = 2
    /\ Len(main_rb) = 2
    /\ Stored(main_rb[1]) = << table_rows[2].P1x, table_rows[2].P1y >>
    /\ Stored(main_rb[2]) = << table_rows[2].P2x, table_rows[2].P2y >>
    /\ main_rb[1] # main_rb[2]


\* C18: the measured path is connected: the stored start vertex of every row
\* after the first is the stored end vertex of the row before it, and while
\* the table is non-empty last_point is the click whose 6-decimal rounding
\* is the start vertex of the last row.
C18_PathConnected ==
    /\ \A k \in DOMAIN table_rows :
          k > 1 =>
              /\ table_rows[k].P1x = table_rows[k - 1].P2x
              /\ table_rows[k].P1y = table_rows[k - 1].P2y
    /\ table_rows # << >> =>
          /\ last_point # NoPoint
          /\ LET r == table_rows[Len(table_rows)]
             IN  Stored(last_point) = << r.P1x, r.P1y >>

\* C18 witness: three rows through three different stored vertices, the last
\* click being a point that rounding changes.
C18_Witness ==
    /\ Len(table_rows) = 3
    /\ table_rows[1].P1x # table_rows[2].P1x
    /\ table_rows[2].P1x # table_rows[3].P1x
    /\ last_point # Stored(last_point)

\* C20: whenever a click is registered, n is the index of the last row of
\* the table and that row is the open one, so that the next click indexes
\* inside the table and sets the end vertex of no complete row.
C20_IndexIsOpenLastRow ==
    click_count >= 1 =>
        /\ n = Len(table_rows) - 1
        /\ n + 1 \in DOMAIN table_rows
        /\ ~IsComplete(table_rows[n + 1])
        /\ \A i \in DOMAIN table_rows : i < n + 1 => IsComplete(table_rows[i])

\* C20 witness: a non-first click was accepted in a session that a
\* double-click had left inactive; n indexes the open third row.
C20_Witness ==
    /\ lastEvent = "press_left"
    /\ ~is_measuring
    /\ click_count = 3
    /\ n = 2
    /\ ~IsComplete(table_rows[3])


\* C19: unload() is best-effort.  However the removal of the toolbar goes,
\* also when removeToolBar fails and when the fallback fails too, unload()
\* clears the toolbar reference and goes on to the map tool: a tool that is
\* the canvas's current tool is unset and dropped, any other is left alone.
\* Only when both removals fail does the window keep the toolbar.
C19_UnloadIsBestEffort ==
    [][ lastEvent' \in UnloadEvents
        => /\ ~toolbar'
           /\ (tool /\ mapTool) => (~tool' /\ ~mapTool')
           /\ ~(tool /\ mapTool) => (tool' = tool /\ mapTool' = mapTool)
           /\ lastEvent' \in { "unload_removed", "unload_fallback" }
                 => ~window_toolbar'
           /\ lastEvent' \in { "unload_failed", "unload_no_toolbar" }
                 => window_toolbar' = window_toolbar ]_vars

\* C19 witness: both removals just failed while the tool was the canvas's
\* current tool with a session in progress: the toolbar reference is
\* cleared, the window still shows the toolbar, the tool is unset and
\* dropped.
C19_Witness ==
    /\ lastEvent = "unload_failed"
    /\ ~toolbar
    /\ window_toolbar
    /\ ~tool
    /\ ~mapTool
    /\ table_rows # << >>

=============================================================================
